---- MODULE Spec2Model ----
(***************************************************************************)
(* Layered pixel-grid compositor of the LED matrix emulator                *)
(* (src/src/Matrix.py, src/src/Draggable.py).                              *)
(*                                                                         *)
(* Python indices are 0-based.  Grids and numpy arrays are functions       *)
(* [0..h-1 -> [0..w-1 -> color]]; the Python lists widgets and _layers are *)
(* TLA+ sequences, so Python index i is sequence index i+1.                *)
(***************************************************************************)
EXTENDS Integers, Sequences, FiniteSets, TLC

\* Grid size of the model (self.rows, self.cols), scaled down.
Rows == 2
Cols == 3
\* Largest number of elements appended to the widgets list.
MaxWidgets == 2
\* Largest number of calls made on the surface in one behaviour.
MaxCalls == 4
\* Coordinate-mapping specification: bounding boxes have their origin in
\* -Margin..Margin, px_size is in 1..MaxPx and pitch in 0..MaxPitch.
Margin == 2
MaxPx == 3
MaxPitch == 2

\* Defaults of MatrixWidget.__init__, used by MatrixEmulatorWidget.__init__.
DefaultPxSize == 12
DefaultPitch == 3

VARIABLES
    px_size,    \* self.px_size
    pitch,      \* self.pitch
    _colors,    \* self._colors: the displayed grid
    _layers,    \* self._layers: _layers[1] is the same object as _colors
    widgets,    \* self.widgets: widgets[1] is None (background)
    mat_bb,     \* widget.mat_bb of every element
    disp_bb,    \* widget.disp_bb of every element
    call,       \* the last call: its name, arguments and the exception it raised
    trip,       \* the last successful move: element, origin and grid before it
    steps       \* the number of calls made

vars == <<px_size, pitch, _colors, _layers, widgets, mat_bb, disp_bb, call, trip, steps>>

----------------------------------------------------------------------------
(* Values *)

None == "None"
NoWidget == "-"
FillColors == {"blue"}
PxColors == {"black", "blue"}
Pool == {"img1", "img2"}

Max(a, b) == IF a >= b THEN a ELSE b
Min(a, b) == IF a <= b THEN a ELSE b

\* A numpy array / list of lists from its rows.
Arr(s) == [r \in 0..(Len(s) - 1) |-> [c \in 0..(Len(s[1]) - 1) |-> s[r + 1][c + 1]]]
Height(a) == Cardinality(DOMAIN a)
Width(a) == IF DOMAIN a = {} THEN 0 ELSE Cardinality(DOMAIN a[0])
Full(h, w, v) == [r \in 0..(h - 1) |-> [c \in 0..(w - 1) |-> v]]

\* self.img_array of each element: set once by the constructor, every pixel a QColor.
img_array(w) ==
    IF w = "img1" THEN Arr(<< <<"a1", "a2">> >>)
    ELSE Arr(<< <<"b1">>, <<"b2">> >>)

\* ImgWidget.draw
draw(w) == img_array(w)

\* QRect
QRect(x, y, w, h) == [x |-> x, y |-> y, w |-> w, h |-> h]
NullRect == QRect(0, 0, 0, 0)
Top(bb) == bb.y
Left(bb) == bb.x
Bottom(bb) == bb.y + bb.h - 1
Right(bb) == bb.x + bb.w - 1
moveTo(bb, pt) == [bb EXCEPT !.x = pt[1], !.y = pt[2]]

NoCall == [op |-> "init", raised |-> "none", widget |-> NoWidget,
           pt |-> <<0, 0>>, color |-> None, rect |-> NullRect]
Call(op, raised, w, pt, color, rect) ==
    [op |-> op, raised |-> raised, widget |-> w, pt |-> pt, color |-> color, rect |-> rect]
NoTrip == [widget |-> NoWidget, from |-> <<0, 0>>, colors |-> <<>>, composited |-> FALSE]

----------------------------------------------------------------------------
(* CoordinateMapper *)

\* int(a / b) for b > 0: Python's true division followed by the conversion of
\* the float to the int QPoint holds, which drops the fraction.
TruncDiv(a, b) == IF a >= 0 THEN a \div b ELSE -((-a) \div b)

_mat_to_disp(bb) ==
    QRect(bb.x * (px_size + pitch), bb.y * (px_size + pitch),
          bb.w * (px_size + pitch), bb.h * (px_size + pitch))

DispPosToMatNoPitch(disp_pt) ==
    <<TruncDiv(disp_pt[1], px_size), TruncDiv(disp_pt[2], px_size)>>

_disp_pos_to_mat(disp_pt) ==
    <<TruncDiv(disp_pt[1], px_size + pitch), TruncDiv(disp_pt[2], px_size + pitch)>>

----------------------------------------------------------------------------
(* PixelGrid: MatrixWidget *)

\* The bounds check of set_px.
InGridNoLower(row, col) == row < Rows /\ col < Cols
InGrid(row, col) == 0 <= row /\ row < Rows /\ 0 <= col /\ col < Cols

\* self._layers = [ self._colors ]: index 0 of the list is the object _colors
\* names, so a write to _colors is a write to the bottom layer.
Aliased(layers, colors) == [layers EXCEPT ![1] = colors]

\* set_px(row, col, color): one cell, or IndexError and no write.
set_px(row, col, color) ==
    /\ steps < MaxCalls
    /\ steps' = steps + 1
    /\ IF InGrid(row, col)
       THEN /\ _colors' = [_colors EXCEPT ![row][col] = color]
            /\ call' = Call("set_px", "none", NoWidget, <<row, col>>, color, NullRect)
       ELSE /\ _colors' = _colors
            /\ call' = Call("set_px", "IndexError", NoWidget, <<row, col>>, color, NullRect)
    /\ _layers' = Aliased(_layers, _colors')
    /\ trip' = NoTrip
    /\ UNCHANGED <<px_size, pitch, widgets, mat_bb, disp_bb>>

\* fill(color): set_px over every (row, col) of the grid.
fill(color) ==
    /\ steps < MaxCalls
    /\ steps' = steps + 1
    /\ _colors' = [row \in 0..(Rows - 1) |-> [col \in 0..(Cols - 1) |->
                      IF InGrid(row, col) THEN color ELSE _colors[row][col]]]
    /\ _layers' = Aliased(_layers, _colors')
    /\ call' = Call("fill", "none", NoWidget, <<0, 0>>, color, NullRect)
    /\ trip' = NoTrip
    /\ UNCHANGED <<px_size, pitch, widgets, mat_bb, disp_bb>>

\* Glyph bitmaps as bdfparser's todata() returns them: rows of '0' and '1'.
Bitmaps == { Arr(<< <<"1", "0", "1">> >>), Arr(<< <<"1", "1">>, <<"0", "1">> >>) }

\* draw_text(x, y, text, font_path, color), the text given by its bitmap: every
\* '1' bit is set_px at (y + row_n, x + col_n), an IndexError is passed over.
draw_text(x, y, matrix_data, color) ==
    /\ steps < MaxCalls
    /\ steps' = steps + 1
    /\ _colors' = [row \in 0..(Rows - 1) |-> [col \in 0..(Cols - 1) |->
                      IF /\ InGrid(row, col)
                         /\ (row - y) \in DOMAIN matrix_data
                         /\ (col - x) \in DOMAIN matrix_data[row - y]
                         /\ matrix_data[row - y][col - x] = "1"
                      THEN color ELSE _colors[row][col]]]
    /\ _layers' = Aliased(_layers, _colors')
    /\ call' = Call("draw_text", "none", NoWidget, <<x, y>>, color,
                    QRect(x, y, Width(matrix_data), Height(matrix_data)))
    /\ trip' = NoTrip
    /\ UNCHANGED <<px_size, pitch, widgets, mat_bb, disp_bb>>

\* draw_img(path, x, y), the file given by its decoded array: the pixel at
\* (row_n, col_n) is set_px at (row_n, col_n); x and y are not used.
draw_img(img, x, y) ==
    /\ steps < MaxCalls
    /\ steps' = steps + 1
    /\ _colors' = [row \in 0..(Rows - 1) |-> [col \in 0..(Cols - 1) |->
                      IF /\ InGrid(row, col)
                         /\ row \in DOMAIN img_array(img)
                         /\ col \in DOMAIN img_array(img)[row]
                      THEN img_array(img)[row][col] ELSE _colors[row][col]]]
    /\ _layers' = Aliased(_layers, _colors')
    /\ call' = Call("draw_img", "none", img, <<x, y>>, None,
                    QRect(x, y, Width(img_array(img)), Height(img_array(img))))
    /\ trip' = NoTrip
    /\ UNCHANGED <<px_size, pitch, widgets, mat_bb, disp_bb>>

----------------------------------------------------------------------------
(* LayerStack and EmulatorSurface: MatrixEmulatorWidget *)

\* A numpy slice bound on an axis of length n: negative counts from the end,
\* and the result is clamped to 0..n.
SliceIdx(i, n) == IF i < 0 THEN Max(i + n, 0) ELSE Min(i, n)

\* _draw_array(widget) with widget.mat_bb = bb: a rows x cols array of None with
\* widget.draw() assigned to the slice [top:bottom+1, left:right+1].  numpy
\* raises ValueError when draw()'s shape does not broadcast to the slice's;
\* disp_bb is set after the assignment.
_draw_array(widget, bb) ==
    LET r0 == SliceIdx(Top(bb), Rows)
        r1 == SliceIdx(Bottom(bb) + 1, Rows)
        c0 == SliceIdx(Left(bb), Cols)
        c1 == SliceIdx(Right(bb) + 1, Cols)
        sh == Max(r1 - r0, 0)
        sw == Max(c1 - c0, 0)
        a  == draw(widget)
        h  == Height(a)
        w  == Width(a)
    IN  IF (h = sh \/ h = 1) /\ (w = sw \/ w = 1)
        THEN [raised |-> "none",
              array |-> [row \in 0..(Rows - 1) |-> [col \in 0..(Cols - 1) |->
                          IF r0 <= row /\ row < r1 /\ c0 <= col /\ col < c1
                          THEN a[IF h = 1 THEN 0 ELSE row - r0][IF w = 1 THEN 0 ELSE col - c0]
                          ELSE None]],
              disp_bb |-> _mat_to_disp(bb)]
        ELSE [raised |-> "ValueError", array |-> <<>>, disp_bb |-> NullRect]

\* The while loop of update_colors at one cell, k the next layer to read:
\* the topmost layer that is not None there.  Reading outside a layer's shape is
\* an IndexError; None after the bottom layer is the ValueError of line 258.
ScanLayersBottomFirst(layers, k, row, col) ==
    LET Inside(i) == row \in DOMAIN layers[i] /\ col \in DOMAIN layers[i][row]
        S == {i \in 2..k : Inside(i) /\ layers[i][row][col] # None}
    IN  IF \E i \in 1..k : ~Inside(i) THEN "IndexError"
        ELSE IF S = {} THEN layers[1][row][col]
        ELSE layers[CHOOSE i \in S : \A j \in S : i <= j][row][col]

RECURSIVE ScanLayers(_, _, _, _)
ScanLayers(layers, k, row, col) ==
    IF k < 1 THEN None
    ELSE IF row \notin DOMAIN layers[k] \/ col \notin DOMAIN layers[k][row]
         THEN "IndexError"
    ELSE IF layers[k][row][col] # None THEN layers[k][row][col]
    ELSE ScanLayers(layers, k - 1, row, col)

\* The upper end of a range of update_colors(bounding_rect).
RangeHiMin(n, edge) == Min(n, edge)
RangeHi(n, edge) == Max(n, edge)

\* update_colors(bounding_rect) on the layers given (layers[1] is _colors):
\* the cells of row_range x col_range in row-major order, each set to its
\* scan's color, up to the first cell whose scan raises.
UpdateColors(layers, br) ==
    LET rlo == IF br = NullRect THEN 0 ELSE Max(0, Top(br))
        rhi == IF br = NullRect THEN Rows ELSE RangeHi(Rows, Bottom(br))
        clo == IF br = NullRect THEN 0 ELSE Max(0, Left(br))
        chi == IF br = NullRect THEN Cols ELSE RangeHi(Cols, Right(br))
        Cells == (rlo..(rhi - 1)) \X (clo..(chi - 1))
        Scan(p) == ScanLayers(layers, Len(layers), p[1], p[2])
        Failing == {p \in Cells : Scan(p) \in {"IndexError", None}}
        Before(p, q) == p[1] < q[1] \/ (p[1] = q[1] /\ p[2] < q[2])
        first == CHOOSE p \in Failing : \A q \in Failing : q = p \/ Before(p, q)
        Written == IF Failing = {} THEN Cells ELSE {p \in Cells : Before(p, first)}
    IN  [colors |-> [row \in 0..(Rows - 1) |-> [col \in 0..(Cols - 1) |->
                       IF <<row, col>> \in Written THEN Scan(<<row, col>>)
                       ELSE layers[1][row][col]]],
         raised |-> IF Failing = {} THEN "none"
                    ELSE IF Scan(first) = None THEN "ValueError" ELSE "IndexError"]

\* list.index: the first position of x, 0 when x is not in the list.
index(list, x) ==
    IF \E i \in 1..Len(list) : list[i] = x
    THEN CHOOSE i \in 1..Len(list) : list[i] = x /\ \A j \in 1..(i - 1) : list[j] # x
    ELSE 0

\* add_widget(widget): append to widgets, render and append the layer,
\* recomposite.  An exception leaves what the earlier lines did.
add_widget(widget) ==
    /\ steps < MaxCalls
    /\ steps' = steps + 1
    /\ Len(widgets) <= MaxWidgets
    /\ widgets' = Append(widgets, widget)
    /\ LET d == _draw_array(widget, mat_bb[widget])
       IN  IF d.raised # "none"
           THEN /\ call' = Call("add_widget", d.raised, widget, <<0, 0>>, None, NullRect)
                /\ UNCHANGED <<_colors, _layers, disp_bb>>
           ELSE LET u == UpdateColors(Append(_layers, d.array), NullRect)
                IN  /\ disp_bb' = [disp_bb EXCEPT ![widget] = d.disp_bb]
                    /\ _colors' = u.colors
                    /\ _layers' = Aliased(Append(_layers, d.array), u.colors)
                    /\ call' = Call("add_widget", u.raised, widget, <<0, 0>>, None, NullRect)
    /\ trip' = NoTrip
    /\ UNCHANGED <<px_size, pitch, mat_bb>>

\* The grid is current: the last call ran update_colors() to its end.
Composited ==
    /\ call.raised = "none"
    /\ \/ call.op \in {"add_widget", "dragMoveEvent"}
       \/ call.op = "update_colors" /\ call.rect = NullRect

\* dragMoveEvent(e) with e.source() = widget and e.pos() = pos: look the
\* element up, move its mat_bb, replace its layer, recomposite.
dragMoveEvent(widget, pos) ==
    /\ steps < MaxCalls
    /\ steps' = steps + 1
    /\ LET w_idx == index(widgets, widget)
           mat_pos == _disp_pos_to_mat(pos)
           bb == moveTo(mat_bb[widget], mat_pos)
           d == _draw_array(widget, bb)
       IN  IF w_idx = 0
           THEN /\ call' = Call("dragMoveEvent", "ValueError", widget, <<0, 0>>, None, NullRect)
                /\ trip' = NoTrip
                /\ UNCHANGED <<_colors, _layers, mat_bb, disp_bb>>
           ELSE /\ mat_bb' = [mat_bb EXCEPT ![widget] = bb]
                /\ IF d.raised # "none"
                   THEN /\ call' = Call("dragMoveEvent", d.raised, widget, mat_pos, None, NullRect)
                        /\ trip' = NoTrip
                        /\ UNCHANGED <<_colors, _layers, disp_bb>>
                   ELSE /\ disp_bb' = [disp_bb EXCEPT ![widget] = d.disp_bb]
                        /\ IF w_idx > Len(_layers)
                           THEN /\ call' = Call("dragMoveEvent", "IndexError", widget,
                                                mat_pos, None, NullRect)
                                /\ trip' = NoTrip
                                /\ UNCHANGED <<_colors, _layers>>
                           ELSE LET u == UpdateColors([_layers EXCEPT ![w_idx] = d.array], NullRect)
                                IN  /\ _colors' = u.colors
                                    /\ _layers' = Aliased([_layers EXCEPT ![w_idx] = d.array],
                                                          u.colors)
                                    /\ call' = Call("dragMoveEvent", u.raised, widget,
                                                    mat_pos, None, NullRect)
                                    /\ trip' = IF u.raised = "none"
                                               THEN [widget |-> widget,
                                                     from |-> <<mat_bb[widget].x, mat_bb[widget].y>>,
                                                     colors |-> _colors,
                                                     composited |-> Composited]
                                               ELSE NoTrip
    /\ UNCHANGED <<px_size, pitch, widgets>>

\* update_colors(bounding_rect); NullRect stands for the call without argument.
update_colors(bounding_rect) ==
    /\ steps < MaxCalls
    /\ steps' = steps + 1
    /\ LET u == UpdateColors(_layers, bounding_rect)
       IN  /\ _colors' = u.colors
           /\ _layers' = Aliased(_layers, u.colors)
           /\ call' = Call("update_colors", u.raised, NoWidget, <<0, 0>>, None, bounding_rect)
    /\ trip' = NoTrip
    /\ UNCHANGED <<px_size, pitch, widgets, mat_bb, disp_bb>>

\* update_widget(widget_idx), widget_idx a Python index: the layer becomes
\* what draw() returns.
update_widget(widget_idx) ==
    /\ steps < MaxCalls
    /\ steps' = steps + 1
    /\ IF widget_idx + 1 > Len(widgets)
       THEN /\ call' = Call("update_widget", "IndexError", NoWidget, <<widget_idx, 0>>, None, NullRect)
            /\ UNCHANGED _layers
       ELSE IF widgets[widget_idx + 1] = None
       THEN /\ call' = Call("update_widget", "AttributeError", NoWidget, <<widget_idx, 0>>, None, NullRect)
            /\ UNCHANGED _layers
       ELSE IF widget_idx + 1 > Len(_layers)
       THEN /\ call' = Call("update_widget", "IndexError", widgets[widget_idx + 1],
                            <<widget_idx, 0>>, None, NullRect)
            /\ UNCHANGED _layers
       ELSE /\ _layers' = [_layers EXCEPT ![widget_idx + 1] = draw(widgets[widget_idx + 1])]
            /\ call' = Call("update_widget", "none", widgets[widget_idx + 1],
                            <<widget_idx, 0>>, None, NullRect)
    /\ trip' = NoTrip
    /\ UNCHANGED <<px_size, pitch, _colors, widgets, mat_bb, disp_bb>>

----------------------------------------------------------------------------
(* Specifications *)

\* ImgWidget.__init__: mat_bb is the image's size at the (x, y) given.
ImgWidget(w, x, y) == QRect(x, y, Width(img_array(w)), Height(img_array(w)))

\* The inputs.  Element origins (x, y): inside the grid, reaching over its
\* right edge, and above it.
Origins == {<<0, 0>>, <<1, 0>>, <<Cols - 1, 0>>, <<0, -Rows>>}
\* Pointer positions: the first and the last display pixel of some cells.
DragCells == {<<0, 0>>, <<1, 0>>, <<Cols - 1, 0>>, <<0, Rows - 1>>}
DragPoints ==
    {<<p[1] * (px_size + pitch) + d, p[2] * (px_size + pitch) + d>> :
        <<p, d>> \in DragCells \X {0, px_size + pitch - 1}}
\* Rectangles for update_colors: one cell at the origin, one cell off the
\* first row, one off the first column, and two reaching past the grid.
Rects ==
    {QRect(0, 0, 1, 1), QRect(0, 1, 1, 1), QRect(1, 0, 1, 1),
     QRect(0, 0, 1, Rows + 2), QRect(0, 0, Cols + 2, 1)}

\* MatrixEmulatorWidget.__init__ after MatrixWidget.__init__ with its defaults,
\* and the elements constructed.
Init ==
    /\ px_size = DefaultPxSize
    /\ pitch = DefaultPitch
    /\ _colors = Full(Rows, Cols, "black")
    /\ _layers = << Full(Rows, Cols, "black") >>
    /\ widgets = << None >>
    /\ mat_bb \in {[w \in Pool |-> ImgWidget(w, o[w][1], o[w][2])] : o \in [Pool -> Origins]}
    /\ disp_bb = [w \in Pool |-> NullRect]
    /\ call = NoCall
    /\ trip = NoTrip
    /\ steps = 0

Next ==
    \/ \E c \in FillColors : fill(c)
    \/ \E w \in Pool : add_widget(w)
    \/ \E w \in Pool, pos \in DragPoints : dragMoveEvent(w, pos)
    \/ \E br \in Rects \cup {NullRect} : update_colors(br)

Spec == Init /\ [][Next]_vars

\* The surface with update_widget among its calls.
NextUpdate ==
    \/ Next
    \/ \E i \in 0..(MaxWidgets + 1) : update_widget(i)

SpecUpdate == Init /\ [][NextUpdate]_vars

\* The drawing methods of MatrixWidget.
InitPx ==
    /\ Init
    /\ mat_bb = [w \in Pool |-> ImgWidget(w, 0, 0)]

PxRows == {-1, 0, Rows - 1, Rows}
PxCols == {-1, 0, Cols - 1, Cols}
TextOrigins == {<<0, 0>>, <<Cols - 1, 0>>, <<-1, -1>>}

NextPx ==
    \/ \E row \in PxRows, col \in PxCols, c \in PxColors : set_px(row, col, c)
    \/ \E c \in FillColors : fill(c)
    \/ \E p \in TextOrigins, b \in Bitmaps : draw_text(p[1], p[2], b, "yellow")
    \/ \E w \in Pool, p \in {<<0, 0>>, <<1, 1>>} : draw_img(w, p[1], p[2])

SpecPx == InitPx /\ [][NextPx]_vars

\* The coordinate mapper on its own: every px_size, pitch and bounding box.
InitMap ==
    /\ px_size \in 1..MaxPx
    /\ pitch \in 0..MaxPitch
    /\ _colors = Full(Rows, Cols, "black")
    /\ _layers = << Full(Rows, Cols, "black") >>
    /\ widgets = << None >>
    /\ mat_bb \in {[w \in Pool |-> ImgWidget(w, IF w = "img1" THEN x ELSE 0,
                                              IF w = "img1" THEN y ELSE 0)] :
                      <<x, y>> \in (-Margin..Margin) \X (-Margin..Margin)}
    /\ disp_bb = [w \in Pool |-> NullRect]
    /\ call = NoCall
    /\ trip = NoTrip
    /\ steps = 0

\* widget.disp_bb = self._mat_to_disp(widget.mat_bb)
MatToDisp(w) ==
    /\ disp_bb' = [disp_bb EXCEPT ![w] = _mat_to_disp(mat_bb[w])]
    /\ call' = Call("_mat_to_disp", "none", w, <<0, 0>>, None, mat_bb[w])
    /\ UNCHANGED <<px_size, pitch, _colors, _layers, widgets, mat_bb, trip, steps>>

\* _disp_pos_to_mat on the origin of a display box _mat_to_disp produced.
DispToMat(w) ==
    /\ disp_bb[w] # NullRect
    /\ call' = Call("_disp_pos_to_mat", "none", w,
                    _disp_pos_to_mat(<<disp_bb[w].x, disp_bb[w].y>>), None, disp_bb[w])
    /\ UNCHANGED <<px_size, pitch, _colors, _layers, widgets, mat_bb, disp_bb, trip, steps>>

NextMap ==
    \/ \E w \in Pool : MatToDisp(w)
    \/ \E w \in Pool : DispToMat(w)

SpecMap == InitMap /\ [][NextMap]_vars

----------------------------------------------------------------------------
(* Properties *)

Cells == (0..(Rows - 1)) \X (0..(Cols - 1))
\* The cells a bounding box covers, as (row, col).
Extent(bb) == (Top(bb)..Bottom(bb)) \X (Left(bb)..Right(bb))
PartlyOutside(bb) == Extent(bb) \cap Cells # {} /\ Extent(bb) \ Cells # {}

C2_RoundTripRestoresGrid ==
    [][ ( /\ call'.op = "dragMoveEvent"
          /\ call'.raised = "none"
          /\ trip.widget = call'.widget
          /\ trip.composited
          /\ call'.pt = trip.from
          /\ InGrid(trip.from[2], trip.from[1])
          /\ InGrid(mat_bb[trip.widget].y, mat_bb[trip.widget].x)
          /\ <<mat_bb[trip.widget].x, mat_bb[trip.widget].y>> # trip.from )
        => _colors' = trip.colors ]_vars

\* C3: widgets and _layers have the same length, index 0 is the background in
\* both, and layer i is the layer rendered from widgets[i].
C3_WidgetsAndLayersInStep ==
    /\ Len(widgets) = Len(_layers)
    /\ widgets[1] = None
    /\ _layers[1] = _colors
    /\ \A i \in 2..Len(widgets) :
        i <= Len(_layers) => _layers[i] = _draw_array(widgets[i], mat_bb[widgets[i]]).array

\* The layer an element with bounding box bb is to have: its content inside
\* bb at the matching offset, None outside, cells outside the grid dropped.
Clipped(w, bb) ==
    [row \in 0..(Rows - 1) |-> [col \in 0..(Cols - 1) |->
        IF <<row, col>> \in Extent(bb) THEN draw(w)[row - Top(bb)][col - Left(bb)]
        ELSE None]]

\* C4: rendering an element whose extent lies partly outside the grid does not
\* raise: add_widget and dragMoveEvent return normally for it, and its layer
\* holds its content in the cells inside the grid.
C4_PartlyOutsideIsClipped ==
    ( /\ call.op \in {"add_widget", "dragMoveEvent"}
      /\ index(widgets, call.widget) # 0
      /\ PartlyOutside(mat_bb[call.widget]) )
    => /\ call.raised = "none"
       /\ \E i \in 2..Len(_layers) : _layers[i] = Clipped(call.widget, mat_bb[call.widget])

\* C5: a call of add_widget or dragMoveEvent that raises leaves widgets,
\* _layers, _colors and the elements' mat_bb and disp_bb as they were.
C5_RaiseLeavesStateUnchanged ==
    [][ (call'.op \in {"add_widget", "dragMoveEvent"} /\ call'.raised # "none")
        => UNCHANGED <<widgets, _layers, _colors, mat_bb, disp_bb>> ]_vars

\* C6: set_px(row, col, c) with (row, col) in the grid puts c at (row, col) and
\* leaves every other cell; with (row, col) outside it (negative indices
\* included) it raises IndexError and no cell changes.
C6_SetPxFrame ==
    [][ call'.op = "set_px" =>
          LET row == call'.pt[1]
              col == call'.pt[2]
          IN  IF 0 <= row /\ row < Rows /\ 0 <= col /\ col < Cols
              THEN /\ call'.raised = "none"
                   /\ _colors'[row][col] = call'.color
                   /\ \A p \in Cells \ {<<row, col>>} :
                         _colors'[p[1]][p[2]] = _colors[p[1]][p[2]]
              ELSE /\ call'.raised = "IndexError"
                   /\ _colors' = _colors ]_vars

\* set_px has written one cell of a grid that holds another color elsewhere.
C6_Witness ==
    /\ call.op = "set_px"
    /\ call.raised = "none"
    /\ _colors[call.pt[1]][call.pt[2]] = call.color
    /\ \E p \in Cells : _colors[p[1]][p[2]] # call.color

\* C7: _disp_pos_to_mat of the origin of _mat_to_disp(bb) is the origin of bb,
\* and _mat_to_disp scales every coordinate by px_size + pitch.
C7_MapRoundTrip ==
    call.op = "_disp_pos_to_mat" =>
        LET bb == mat_bb[call.widget]
            d  == disp_bb[call.widget]
        IN  /\ call.pt = <<bb.x, bb.y>>
            /\ d.x = bb.x * (px_size + pitch)
            /\ d.y = bb.y * (px_size + pitch)
            /\ d.w = bb.w * (px_size + pitch)
            /\ d.h = bb.h * (px_size + pitch)

\* A box with a negative and a positive coordinate, with a pitch, mapped forth and back.
C7_Witness ==
    /\ call.op = "_disp_pos_to_mat"
    /\ pitch > 0
    /\ px_size > 1
    /\ mat_bb[call.widget].x < 0
    /\ mat_bb[call.widget].y > 0
    /\ call.pt = <<mat_bb[call.widget].x, mat_bb[call.widget].y>>

\* C8: every non-background layer is a grid of exactly rows x cols cells that
\* is None outside its element's mat_bb and holds the element's content inside.
C8_LayersAreMatrixSized ==
    \A i \in 2..Len(_layers) :
        /\ Height(_layers[i]) = Rows
        /\ Width(_layers[i]) = Cols
        /\ i <= Len(widgets) => _layers[i] = Clipped(widgets[i], mat_bb[widgets[i]])

\* What update_colors() would leave from the layers as they are.
FullRecomposite == UpdateColors(_layers, NullRect)

\* C9: update_colors(bounding_rect) returns without error and leaves _colors
\* as update_colors() would have, whatever bounding_rect is.
C9_AnyRectRecomputesAll ==
    [][ call'.op = "update_colors"
        => call'.raised = "none" /\ _colors' = FullRecomposite.colors ]_vars

\* A rectangle whose ranges are the whole grid: it starts at or before row 0
\* and column 0 and its bottom() and right() do not exceed rows and cols.
Covering(br) ==
    /\ Top(br) <= 0
    /\ Left(br) <= 0
    /\ Bottom(br) <= Rows
    /\ Right(br) <= Cols

\* C9 amended: for a bounding_rect with top() <= 0, left() <= 0,
\* bottom() <= rows and right() <= cols, update_colors(bounding_rect) ends as
\* update_colors() would and leaves the same _colors.
C9_CoveringRectRecomputesAll ==
    [][ (call'.op = "update_colors" /\ Covering(call'.rect))
        => /\ call'.raised = FullRecomposite.raised
           /\ _colors' = FullRecomposite.colors ]_vars

\* update_colors was called with a one-cell rectangle and the grid shows an
\* element's pixel at a cell outside that rectangle.
C9_Witness ==
    /\ call.op = "update_colors"
    /\ call.rect = QRect(0, 0, 1, 1)
    /\ call.raised = "none"
    /\ \E p \in Cells \ Extent(call.rect) :
        /\ Len(_layers) >= 2
        /\ _layers[Len(_layers)][p[1]][p[2]] # None
        /\ _colors[p[1]][p[2]] = _layers[Len(_layers)][p[1]][p[2]]

\* C10: add_widget, dragMoveEvent and update_colors do not change the
\* background layer _layers[0].
C10_BackgroundUntouched ==
    [][ call'.op \in {"add_widget", "dragMoveEvent", "update_colors"}
        => _layers'[1] = _layers[1] ]_vars
====
